---- MODULE Spec2Model ----
(***************************************************************************)
(* The binary-number guessing minigame of epic-64/hackerman               *)
(* (src/src/games/binary_numbers.rs): the puzzle (BinaryNumbersPuzzle)    *)
(* and the session around it (BinaryNumbersGame), driven by ticks         *)
(* (run(dt)) and key inputs (handle_game_input).                          *)
(*                                                                         *)
(* Time is an f64 number of seconds in the source.  Every time constant   *)
(* of the source is a multiple of 0.5 s, so the model counts time in      *)
(* half-seconds (8.0 s is 16, the 5.0 s floor is 10, the 0.5 s streak     *)
(* penalty is 1); dt is drawn from multiples of 0.5 s, on which the f64   *)
(* arithmetic of the source is exact.                                     *)
(*                                                                         *)
(* Option<T> is a sequence of length at most one: None is <<>>, Some(v)   *)
(* is <<v>>.                                                               *)
(*                                                                         *)
(* Two history fields, which the source does not have, record what        *)
(* finalize_round did: puzzle.scored counts the times it scored the       *)
(* current puzzle, and history lists the outcomes it scored since the     *)
(* session was created or last reset.                                     *)
(***************************************************************************)
EXTENDS Integers, Sequences, FiniteSets, TLC

VARIABLES
    game,    \* a BinaryNumbersGame session on its own
    clock,   \* a puzzle's timer in f64 (see F64 below)
    host,    \* a frame loop, App::run or run_app, with what it owns
    text     \* a string handed to TrimMargin::nice, and what nice returns

vars == <<game, clock, host, text>>

(***************************************************************************)
(* Bounds of the model.                                                    *)
(***************************************************************************)
\* advance_round is not taken once this many rounds have been scored
MaxRounds == 3
\* the same cap in the long-streak specification
MaxStreakRounds == 16
\* seeds of the random streams a puzzle may be generated from: 0..MaxSeed
MaxSeed == 2
\* the largest tick, in half-seconds
MaxDt == 12

None == <<>>

Some(v) == <<v>>

is_some(o) == o # None

Max(a, b) == IF a >= b THEN a ELSE b

MAX_LIVES == 5

AllBits == {"Four", "Eight", "Twelve", "Sixteen"}

(***************************************************************************)
(* enum Bits                                                               *)
(***************************************************************************)
to_int(bits) ==
    CASE bits = "Four" -> 4
      [] bits = "Eight" -> 8
      [] bits = "Twelve" -> 12
      [] bits = "Sixteen" -> 16

\* mutant of upper_bound: the range of a single bit
upper_bound_OneBit(bits) == 2 ^ 1 - 1

upper_bound(bits) == 2 ^ to_int(bits) - 1

suggestion_count(bits) ==
    CASE bits = "Four" -> 3
      [] bits = "Eight" -> 4
      [] bits = "Twelve" -> 5
      [] bits = "Sixteen" -> 6

(***************************************************************************)
(* The random source (rand::rng()) lies outside the repository.  Its      *)
(* output is one of a bounded family of streams, indexed by a seed; the   *)
(* k-th raw output of stream `seed` is RngRaw(seed, k).  Stream 0 starts  *)
(* with the same value twice, so the rejection branch of the generation   *)
(* loop is taken; the odd multiplier spreads the values over the whole    *)
(* range of every bit width.                                               *)
(* random_range(seed, k, lo, hi) is rng.random_range(lo..=hi) at position *)
(* k of the stream.  A fresh seed is chosen at every Puzzle::new.         *)
(***************************************************************************)
RngRaw(seed, k) == (seed + (k * (k + seed)) \div 2) * 2731

random_range(seed, k, lo, hi) == lo + (RngRaw(seed, k) % (hi - lo + 1))

contains(s, v) == \E i \in 1..Len(s) : s[i] = v

\* mutant of GenSuggestions: every draw is pushed, duplicates included
RECURSIVE GenSuggestionsNoReject(_, _, _, _)
GenSuggestionsNoReject(bits, seed, k, suggestions) ==
    IF Len(suggestions) < suggestion_count(bits)
    THEN LET num == random_range(seed, k, 0, upper_bound(bits))
         IN  GenSuggestionsNoReject(bits, seed, k + 1, Append(suggestions, num))
    ELSE [suggestions |-> suggestions, k |-> k]

\* the `while suggestions.len() < bits.suggestion_count()` loop; the result
\* carries the position reached in the random stream
RECURSIVE GenSuggestions(_, _, _, _)
GenSuggestions(bits, seed, k, suggestions) ==
    IF Len(suggestions) < suggestion_count(bits)
    THEN LET num == random_range(seed, k, 0, upper_bound(bits))
         IN  IF ~contains(suggestions, num)
             THEN GenSuggestions(bits, seed, k + 1, Append(suggestions, num))
             ELSE GenSuggestions(bits, seed, k + 1, suggestions)
    ELSE [suggestions |-> suggestions, k |-> k]

Swap(s, i, j) == [s EXCEPT ![i] = s[j], ![j] = s[i]]

\* suggestions.shuffle(&mut rng): Fisher-Yates from the last index down,
\* swapping index i (0-based) with random_range(0..=i); s is 1-based
RECURSIVE Shuffle(_, _, _, _)
Shuffle(s, seed, k, i) ==
    IF i < 1 THEN s
    ELSE Shuffle(Swap(s, i + 1, random_range(seed, k, 0, i) + 1), seed, k + 1, i - 1)

\* mutant of base_time: the base times in seconds, not in half-seconds
base_time_Seconds(bits) ==
    CASE bits = "Four" -> 8
      [] bits = "Eight" -> 12
      [] bits = "Twelve" -> 16
      [] bits = "Sixteen" -> 20

base_time(bits) ==
    CASE bits = "Four" -> 16
      [] bits = "Eight" -> 24
      [] bits = "Twelve" -> 32
      [] bits = "Sixteen" -> 40

(***************************************************************************)
(* BinaryNumbersPuzzle::new (scored is the history field).                *)
(***************************************************************************)
NewPuzzle(bits, streak, seed) ==
    LET gen == GenSuggestions(bits, seed, 0, <<>>)
        current_index == random_range(seed, gen.k, 0, Len(gen.suggestions) - 1)
        current_number == gen.suggestions[current_index + 1]
        suggestions == Shuffle(gen.suggestions, seed, gen.k + 1, Len(gen.suggestions) - 1)
        penalty == streak
        time_total == Max(base_time(bits) - penalty, 10)
    IN  [bits |-> bits,
         current_number |-> current_number,
         suggestions |-> suggestions,
         time_total |-> time_total,
         time_left |-> time_total,
         selected_suggestion |-> Some(suggestions[1]),
         guess_result |-> None,
         show_hint |-> FALSE,
         scored |-> 0]

\* mutant of is_correct_guess: the guess is compared with the first suggestion
is_correct_guess_First(p, guess) == guess = p.suggestions[1]

is_correct_guess(p, guess) == guess = p.current_number

\* mutant of PuzzleRun: no early return once a guess has been made
PuzzleRunNoEarlyReturn(p, dt) ==
    LET time_left == Max(p.time_left - dt, 0)
    IN  [p EXCEPT !.time_left = time_left,
                  !.guess_result = IF time_left <= 0 THEN Some("Timeout") ELSE @]

\* mutant of PuzzleRun: running out of time sets no outcome
PuzzleRun_NoTimeout(p, dt) ==
    IF is_some(p.guess_result) THEN p
    ELSE [p EXCEPT !.time_left = Max(p.time_left - dt, 0)]

\* mutant of PuzzleRun: the remaining time is not floored at 0
PuzzleRun_NoFloor(p, dt) ==
    IF is_some(p.guess_result) THEN p
    ELSE LET time_left == p.time_left - dt
         IN  [p EXCEPT !.time_left = time_left,
                       !.guess_result = IF time_left <= 0 THEN Some("Timeout") ELSE @]

\* BinaryNumbersPuzzle::run
PuzzleRun(p, dt) ==
    IF is_some(p.guess_result) THEN p
    ELSE LET time_left == Max(p.time_left - dt, 0)
         IN  [p EXCEPT !.time_left = time_left,
                       !.guess_result = IF time_left <= 0 THEN Some("Timeout") ELSE @]

\* BinaryNumbersGame::init_puzzle
init_puzzle(bits, streak, seed) == NewPuzzle(bits, streak, seed)

\* mutant of NewGame: a session starts with two lives
NewGame_TwoLives(bits, seed) ==
    [bits |-> bits,
     puzzle |-> init_puzzle(bits, 0, seed),
     exit_intended |-> FALSE,
     score |-> 0,
     streak |-> 0,
     rounds |-> 0,
     puzzle_resolved |-> FALSE,
     lives |-> 2,
     game_over |-> FALSE,
     history |-> <<>>]

\* BinaryNumbersGame::new
NewGame(bits, seed) ==
    [bits |-> bits,
     puzzle |-> init_puzzle(bits, 0, seed),
     exit_intended |-> FALSE,
     score |-> 0,
     streak |-> 0,
     rounds |-> 0,
     puzzle_resolved |-> FALSE,
     lives |-> 3,
     game_over |-> FALSE,
     history |-> <<>>]

\* mutant of FinalizeCorrect: the score bonus uses the streak before the
\* increment
FinalizeCorrectOldStreak(g) ==
    [g EXCEPT !.streak = @ + 1,
              !.score = @ + 10 + (g.streak * 2),
              !.lives = IF (g.streak + 1) % 5 = 0 /\ @ < MAX_LIVES THEN @ + 1 ELSE @]

\* mutant of FinalizeCorrect: the extra life is not capped at MAX_LIVES
FinalizeCorrectNoCap(g) ==
    LET streak == g.streak + 1
    IN  [g EXCEPT !.streak = streak,
                  !.score = @ + 10 + (streak * 2),
                  !.lives = IF streak % 5 = 0 THEN @ + 1 ELSE @]

\* the Correct arm of finalize_round
FinalizeCorrect(g) ==
    LET streak == g.streak + 1
    IN  [g EXCEPT !.streak = streak,
                  !.score = @ + 10 + (streak * 2),
                  !.lives = IF streak % 5 = 0 /\ @ < MAX_LIVES THEN @ + 1 ELSE @]

\* mutant of FinalizeWrong: the streak survives a lost round
FinalizeWrongKeepsStreak(g) ==
    [g EXCEPT !.lives = IF @ > 0 THEN @ - 1 ELSE @]

\* mutant of FinalizeWrong: a wrong answer costs points
FinalizeWrong_Penalty(g) ==
    [g EXCEPT !.streak = 0,
              !.score = Max(@ - 5, 0),
              !.lives = IF @ > 0 THEN @ - 1 ELSE @]

\* the Incorrect | Timeout arm of finalize_round
FinalizeWrong(g) ==
    [g EXCEPT !.streak = 0,
              !.lives = IF @ > 0 THEN @ - 1 ELSE @]

\* mutant of finalize_round: game_over is decided on lives as they were
\* before the round was scored
finalize_round_StaleLives(g) ==
    IF is_some(g.puzzle.guess_result)
    THEN LET g1 == [g EXCEPT !.rounds = @ + 1,
                             !.puzzle.scored = @ + 1,
                             !.history = Append(@, g.puzzle.guess_result[1])]
             g2 == IF g.puzzle.guess_result = Some("Correct")
                   THEN FinalizeCorrect(g1)
                   ELSE FinalizeWrong(g1)
         IN  [g2 EXCEPT !.game_over = IF g.lives = 0 THEN TRUE ELSE @,
                        !.puzzle_resolved = TRUE]
    ELSE g

\* mutant of finalize_round: the session is over with one life left
finalize_round_GameOverAtOne(g) ==
    IF is_some(g.puzzle.guess_result)
    THEN LET g1 == [g EXCEPT !.rounds = @ + 1,
                             !.puzzle.scored = @ + 1,
                             !.history = Append(@, g.puzzle.guess_result[1])]
             g2 == IF g.puzzle.guess_result = Some("Correct")
                   THEN FinalizeCorrect(g1)
                   ELSE FinalizeWrong(g1)
         IN  [g2 EXCEPT !.game_over = IF g2.lives <= 1 THEN TRUE ELSE @,
                        !.puzzle_resolved = TRUE]
    ELSE g

\* BinaryNumbersGame::finalize_round
finalize_round(g) ==
    IF is_some(g.puzzle.guess_result)
    THEN LET g1 == [g EXCEPT !.rounds = @ + 1,
                             !.puzzle.scored = @ + 1,
                             !.history = Append(@, g.puzzle.guess_result[1])]
             g2 == IF g.puzzle.guess_result = Some("Correct")
                   THEN FinalizeCorrect(g1)
                   ELSE FinalizeWrong(g1)
         IN  [g2 EXCEPT !.game_over = IF g2.lives = 0 THEN TRUE ELSE @,
                        !.puzzle_resolved = TRUE]
    ELSE g

\* mutant of RunFinalizeGuard: puzzle_resolved is not consulted
RunFinalizeGuardNoFlag(g) == is_some(g.puzzle.guess_result)

\* the guard of the finalize_round call in BinaryNumbersGame::run
RunFinalizeGuard(g) == is_some(g.puzzle.guess_result) /\ ~g.puzzle_resolved

\* MainScreenWidget::run for BinaryNumbersGame
Run(g, dt) ==
    IF g.game_over THEN g
    ELSE LET g1 == [g EXCEPT !.puzzle = PuzzleRun(@, dt)]
         IN  IF RunFinalizeGuard(g1) THEN finalize_round(g1) ELSE g1

\* mutant of reset_game_state: game_over is left set
reset_game_state_KeepsGameOver(g, seed) ==
    [g EXCEPT !.score = 0,
              !.streak = 0,
              !.rounds = 0,
              !.lives = 3,
              !.puzzle_resolved = FALSE,
              !.puzzle = init_puzzle(g.bits, 0, seed),
              !.history = <<>>]

\* mutant of reset_game_state: the score survives the reset
reset_game_state_KeepsScore(g, seed) ==
    [g EXCEPT !.streak = 0,
              !.rounds = 0,
              !.lives = 3,
              !.game_over = FALSE,
              !.puzzle_resolved = FALSE,
              !.puzzle = init_puzzle(g.bits, 0, seed),
              !.history = <<>>]

\* mutant of reset_game_state: the reset takes back the wish to leave
reset_game_state_ClearsExit(g, seed) ==
    [g EXCEPT !.score = 0,
              !.streak = 0,
              !.rounds = 0,
              !.lives = 3,
              !.game_over = FALSE,
              !.puzzle_resolved = FALSE,
              !.exit_intended = FALSE,
              !.puzzle = init_puzzle(g.bits, 0, seed),
              !.history = <<>>]

\* BinaryNumbersGame::reset_game_state
reset_game_state(g, seed) ==
    [g EXCEPT !.score = 0,
              !.streak = 0,
              !.rounds = 0,
              !.lives = 3,
              !.game_over = FALSE,
              !.puzzle_resolved = FALSE,
              !.puzzle = init_puzzle(g.bits, 0, seed),
              !.history = <<>>]

\* BinaryNumbersGame::handle_game_over_input
handle_game_over_input(g, key, seed) ==
    CASE key = "Enter" -> reset_game_state(g, seed)
      [] key = "Esc" -> [g EXCEPT !.exit_intended = TRUE]
      [] OTHER -> g

\* suggestions.iter().position(|&x| x == selected), 1-based, None if absent
position(s, v) ==
    IF contains(s, v)
    THEN Some(CHOOSE i \in 1..Len(s) : s[i] = v /\ \A j \in 1..(i - 1) : s[j] # v)
    ELSE None

\* mutant of SelectNext: the selection stops at the last suggestion
SelectNext_NoWrap(p) ==
    IF is_some(p.selected_suggestion)
    THEN LET current_index == position(p.suggestions, p.selected_suggestion[1])
         IN  IF is_some(current_index) /\ current_index[1] < Len(p.suggestions)
             THEN [p EXCEPT !.selected_suggestion = Some(p.suggestions[current_index[1] + 1])]
             ELSE p
    ELSE [p EXCEPT !.selected_suggestion = Some(p.suggestions[1])]

\* the KeyCode::Right arm of handle_no_result_yet
SelectNext(p) ==
    IF is_some(p.selected_suggestion)
    THEN LET current_index == position(p.suggestions, p.selected_suggestion[1])
         IN  IF is_some(current_index)
             THEN LET next_index == (current_index[1] % Len(p.suggestions)) + 1
                  IN  [p EXCEPT !.selected_suggestion = Some(p.suggestions[next_index])]
             ELSE p
    ELSE [p EXCEPT !.selected_suggestion = Some(p.suggestions[1])]

\* mutant of SelectPrevious: Left from the first suggestion drops the selection
SelectPrevious_Clears(p) ==
    IF is_some(p.selected_suggestion)
    THEN LET current_index == position(p.suggestions, p.selected_suggestion[1])
         IN  IF is_some(current_index)
             THEN IF current_index[1] = 1
                  THEN [p EXCEPT !.selected_suggestion = None]
                  ELSE [p EXCEPT !.selected_suggestion =
                                     Some(p.suggestions[current_index[1] - 1])]
             ELSE p
    ELSE p

\* the KeyCode::Left arm of handle_no_result_yet
SelectPrevious(p) ==
    IF is_some(p.selected_suggestion)
    THEN LET current_index == position(p.suggestions, p.selected_suggestion[1])
         IN  IF is_some(current_index)
             THEN LET prev_index == IF current_index[1] = 1
                                    THEN Len(p.suggestions)
                                    ELSE current_index[1] - 1
                  IN  [p EXCEPT !.selected_suggestion = Some(p.suggestions[prev_index])]
             ELSE p
    ELSE p

\* the KeyCode::Enter arm of handle_no_result_yet
ConfirmGuess(g) ==
    IF is_some(g.puzzle.selected_suggestion)
    THEN LET selected == g.puzzle.selected_suggestion[1]
             result == IF is_correct_guess(g.puzzle, selected)
                       THEN "Correct" ELSE "Incorrect"
         IN  finalize_round([g EXCEPT !.puzzle.guess_result = Some(result)])
    ELSE g

\* mutant of Skip: the outcome is set but the round is not finalized
SkipNoFinalize(g) == [g EXCEPT !.puzzle.guess_result = Some("Timeout")]

\* mutant of Skip: a skipped round is scored as an Incorrect guess
Skip_AsIncorrect(g) == finalize_round([g EXCEPT !.puzzle.guess_result = Some("Incorrect")])

\* the KeyCode::Char('s') | KeyCode::Char('S') arm of handle_no_result_yet
Skip(g) == finalize_round([g EXCEPT !.puzzle.guess_result = Some("Timeout")])

\* mutant of ToggleHint: looking at the hint costs half a second
ToggleHint_Penalty(p) == [p EXCEPT !.show_hint = ~@, !.time_left = Max(@ - 1, 0)]

\* mutant of ToggleHint: the hint is switched on, never off
ToggleHint_SetsTrue(p) == [p EXCEPT !.show_hint = TRUE]

\* the KeyCode::Char('h') | KeyCode::Char('H') arms
ToggleHint(p) == [p EXCEPT !.show_hint = ~@]

\* BinaryNumbersGame::handle_no_result_yet
handle_no_result_yet(g, key) ==
    CASE key = "Right" -> [g EXCEPT !.puzzle = SelectNext(@)]
      [] key = "Left" -> [g EXCEPT !.puzzle = SelectPrevious(@)]
      [] key = "Enter" -> ConfirmGuess(g)
      [] key \in {"h", "H"} -> [g EXCEPT !.puzzle = ToggleHint(@)]
      [] key \in {"s", "S"} -> Skip(g)
      [] OTHER -> g

\* mutant of AdvanceRound: the new puzzle is a 4-bit puzzle
AdvanceRound_FourBits(g, seed) ==
    [g EXCEPT !.puzzle = init_puzzle("Four", g.streak, seed),
              !.puzzle_resolved = FALSE]

\* mutant of AdvanceRound: the new puzzle is built for a streak of 0
AdvanceRound_StreakZero(g, seed) ==
    [g EXCEPT !.puzzle = init_puzzle(g.bits, 0, seed),
              !.puzzle_resolved = FALSE]

\* the KeyCode::Enter arm of handle_result_available
AdvanceRound(g, seed) ==
    [g EXCEPT !.puzzle = init_puzzle(g.bits, g.streak, seed),
              !.puzzle_resolved = FALSE]

\* mutant of handle_result_available: Left and Right still move the selection
handle_result_available_Moves(g, key, seed) ==
    CASE key = "Enter" -> AdvanceRound(g, seed)
      [] key = "Esc" -> [g EXCEPT !.exit_intended = TRUE]
      [] key \in {"h", "H"} -> [g EXCEPT !.puzzle = ToggleHint(@)]
      [] key = "Right" -> [g EXCEPT !.puzzle = SelectNext(@)]
      [] key = "Left" -> [g EXCEPT !.puzzle = SelectPrevious(@)]
      [] OTHER -> g

\* BinaryNumbersGame::handle_result_available
handle_result_available(g, key, seed) ==
    CASE key = "Enter" -> AdvanceRound(g, seed)
      [] key = "Esc" -> [g EXCEPT !.exit_intended = TRUE]
      [] key \in {"h", "H"} -> [g EXCEPT !.puzzle = ToggleHint(@)]
      [] OTHER -> g

\* mutant of handle_game_input: the game-over screen is not checked for
handle_game_input_NoGameOverCheck(g, key, seed) ==
    IF key = "Esc" THEN [g EXCEPT !.exit_intended = TRUE]
    ELSE IF g.puzzle.guess_result = None THEN handle_no_result_yet(g, key)
    ELSE handle_result_available(g, key, seed)

\* mutant of handle_game_input: keys are handled as if no result were set
handle_game_input_NoDispatch(g, key, seed) ==
    IF key = "Esc" THEN [g EXCEPT !.exit_intended = TRUE]
    ELSE IF g.game_over THEN handle_game_over_input(g, key, seed)
    ELSE handle_no_result_yet(g, key)

\* BinaryNumbersGame::lives_hearts: the numbers of full and of empty hearts
lives_hearts(g) == [full |-> g.lives, empty |-> MAX_LIVES - g.lives]

\* BinaryNumbersGame::handle_game_input
handle_game_input(g, key, seed) ==
    IF key = "Esc" THEN [g EXCEPT !.exit_intended = TRUE]
    ELSE IF g.game_over THEN handle_game_over_input(g, key, seed)
    ELSE IF g.puzzle.guess_result = None THEN handle_no_result_yet(g, key)
    ELSE handle_result_available(g, key, seed)

(***************************************************************************)
(* Inputs.                                                                 *)
(***************************************************************************)
Seeds == 0..MaxSeed

\* a tick of no time, and a tick of MaxDt half-seconds
DtSet == {0, MaxDt}

\* Enter would start a new round (advance_round)
WouldAdvance(g) == ~g.game_over /\ is_some(g.puzzle.guess_result)

(***************************************************************************)
(* The session under any sequence of ticks and key inputs.                *)
(***************************************************************************)
\* the value of a variable that a specification does not use
Unused == [unused |-> TRUE]

Init ==
    /\ \E bits \in AllBits, seed \in Seeds : game = NewGame(bits, seed)
    /\ clock = Unused
    /\ host = Unused
    /\ text = Unused

Tick == \E dt \in DtSet : game' = Run(game, dt) /\ UNCHANGED <<clock, host, text>>

KeyRight == game' = handle_game_input(game, "Right", 0) /\ UNCHANGED <<clock, host, text>>

KeyLeft == game' = handle_game_input(game, "Left", 0) /\ UNCHANGED <<clock, host, text>>

KeyEnter ==
    /\ WouldAdvance(game) => game.rounds < MaxRounds
    /\ \E seed \in Seeds : game' = handle_game_input(game, "Enter", seed)
    /\ UNCHANGED <<clock, host, text>>

KeyHint ==
    /\ \E key \in {"h", "H"} : game' = handle_game_input(game, key, 0)
    /\ UNCHANGED <<clock, host, text>>

KeySkip ==
    /\ \E key \in {"s", "S"} : game' = handle_game_input(game, key, 0)
    /\ UNCHANGED <<clock, host, text>>

KeyEsc == game' = handle_game_input(game, "Esc", 0) /\ UNCHANGED <<clock, host, text>>

KeyOther == game' = handle_game_input(game, "Other", 0) /\ UNCHANGED <<clock, host, text>>

Next ==
    \/ Tick
    \/ KeyRight
    \/ KeyLeft
    \/ KeyEnter
    \/ KeyHint
    \/ KeySkip
    \/ KeyEsc
    \/ KeyOther

Spec == Init /\ [][Next]_vars

(***************************************************************************)
(* Long streaks: a 4-bit session fed from one random stream, with ticks   *)
(* of MaxDt, Right and Enter, for up to MaxStreakRounds rounds.           *)
(***************************************************************************)
InitStreak == game = NewGame("Four", 0) /\ clock = Unused /\ host = Unused /\ text = Unused

StreakTick == game' = Run(game, MaxDt) /\ UNCHANGED <<clock, host, text>>

StreakRight == game' = handle_game_input(game, "Right", 0) /\ UNCHANGED <<clock, host, text>>

StreakEnter ==
    /\ WouldAdvance(game) => game.rounds < MaxStreakRounds
    /\ game' = handle_game_input(game, "Enter", 0)
    /\ UNCHANGED <<clock, host, text>>

NextStreak ==
    \/ StreakTick
    \/ StreakRight
    \/ StreakEnter

SpecStreak == InitStreak /\ [][NextStreak]_vars

(***************************************************************************)
(* The puzzle's timer in f64.  time_left and dt are f64 numbers of         *)
(* seconds, and BinaryNumbersPuzzle::run subtracts one from the other with *)
(* the rounding of IEEE 754 binary64: the exact difference is rounded to   *)
(* 53 significant bits, ties to even.  Here a time is a whole number of    *)
(* 2^-56 s, written in three limbs of 21 bits, <<high, middle, low>>; the  *)
(* times below are all such numbers, and so are their differences.         *)
(***************************************************************************)
Limb == 2^21

F64Zero == <<0, 0, 0>>

\* a number of half-seconds (the unit of time_total above) as an f64
HalfSeconds(h) == <<h * 2^13, 0, 0>>

\* the f64 nearest to 0.1, 0x1999999999999A * 2^-56
Tenth == <<1638, 838860, 1677722>>

\* 0.25 as an f64
Quarter == <<2^12, 0, 0>>

\* a < b
F64Less(a, b) ==
    \/ a[1] < b[1]
    \/ a[1] = b[1] /\ a[2] < b[2]
    \/ a[1] = b[1] /\ a[2] = b[2] /\ a[3] < b[3]

\* the limbs of high * Limb^2 + middle * Limb + low, carries and borrows done
Carry(high, middle, low) ==
    LET m == middle + (low \div Limb)
    IN  <<high + (m \div Limb), m % Limb, low % Limb>>

\* a - b and a + b in exact arithmetic, for a >= b
ExactSub(a, b) == Carry(a[1] - b[1], a[2] - b[2], a[3] - b[3])

ExactAdd(a, b) == Carry(a[1] + b[1], a[2] + b[2], a[3] + b[3])

\* the number of bits of n, for n below Limb
Bits(n) == CHOOSE k \in 0..21 : n < 2^k /\ (k = 0 \/ n >= 2^(k - 1))

BitLength(a) ==
    IF a[1] > 0 THEN 42 + Bits(a[1])
    ELSE IF a[2] > 0 THEN 21 + Bits(a[2])
    ELSE Bits(a[3])

\* a rounded to 53 significant bits, ties to even; a is below 2^63, so the
\* bits that are dropped are all in the low limb
RoundToF64(a) ==
    LET q == BitLength(a) - 53
    IN  IF q <= 0 THEN a
        ELSE LET ulp == 2^q
                 r == a[3] % ulp
                 odd == (a[3] \div ulp) % 2 = 1
             IN  IF r > ulp \div 2 \/ (r = ulp \div 2 /\ odd)
                 THEN Carry(a[1], a[2], a[3] - r + ulp)
                 ELSE <<a[1], a[2], a[3] - r>>

\* (a - b).max(0.0) in f64
F64SubMaxZero(a, b) == IF F64Less(a, b) THEN F64Zero ELSE RoundToF64(ExactSub(a, b))

\* mutant of PuzzleRunF64: the timeout is tested with < in place of <=
PuzzleRunF64_StrictTimeout(c) ==
    IF is_some(c.guess_result) THEN c
    ELSE [c EXCEPT !.time_left = F64SubMaxZero(c.time_left, c.dt),
                   !.elapsed = ExactAdd(c.elapsed, c.dt)]

\* BinaryNumbersPuzzle::run with time_left in f64, called with dt = c.dt;
\* elapsed, which the source does not have, is the exact sum of the dt of
\* the calls that found no outcome
PuzzleRunF64(c) ==
    IF is_some(c.guess_result) THEN c
    ELSE LET left == F64SubMaxZero(c.time_left, c.dt)
         IN  [c EXCEPT !.time_left = left,
                       !.guess_result = IF left = F64Zero THEN Some("Timeout") ELSE @,
                       !.elapsed = ExactAdd(c.elapsed, c.dt)]

\* the tick lengths of the timer: 0.1 s and three lengths that are whole
\* multiples of 2^-14 s
ClockDts == {Tenth, Quarter, HalfSeconds(1), HalfSeconds(3)}

\* a whole multiple of 2^-14 s
Dyadic(dt) == dt[2] = 0 /\ dt[3] = 0

\* the streaks the timed puzzle is created with: none, and one that brings
\* the 4-bit puzzle to the 5.0 s floor
ClockStreaks == {0, 6}

\* the timer of a puzzle as BinaryNumbersPuzzle::new leaves it
InitClock ==
    /\ \E bits \in AllBits, streak \in ClockStreaks, dt \in ClockDts :
           LET total == HalfSeconds(NewPuzzle(bits, streak, 0).time_total)
           IN  clock = [time_total |-> total,
                        time_left |-> total,
                        guess_result |-> None,
                        dt |-> dt,
                        elapsed |-> F64Zero]
    /\ game = Unused
    /\ host = Unused
    /\ text = Unused

\* one frame with no input: run(dt)
ClockTick == clock' = PuzzleRunF64(clock) /\ UNCHANGED <<game, host, text>>

NextClock == ClockTick

SpecClock == InitClock /\ [][NextClock]_vars

(***************************************************************************)
(* The two frame loops that host the game: App::run (src/src/app.rs) with  *)
(* its main menu, and run_app (src/src/bin/binbreak.rs) with its start     *)
(* menu.  One step is one iteration of the loop: draw, run(dt) on what is  *)
(* attached, the exit check, then the event the iteration reads, if any.   *)
(* An event is a key press, "Resize" for an event that is no key press,    *)
(* or "NoEvent" when the poll times out.  "CtrlC" is c with the control    *)
(* modifier; a game takes it, like every key it has no arm for, as a key   *)
(* that does nothing.  frame_counter and frame_times, which are only       *)
(* displayed, are left out.                                                *)
(*                                                                         *)
(* Both loops keep last_frame_time and compute dt = now - last_frame_time  *)
(* at the top of an iteration.  The field elapsed of a host is the time    *)
(* that has gone by since last_frame_time when the iteration ends, waiting *)
(* for an event and sleeping included: it is the dt of the next iteration. *)
(* The field event_read, which the source does not have, tells whether the *)
(* last iteration read an event.                                           *)
(***************************************************************************)
\* the events an iteration may read
HostEvents ==
    {"NoEvent", "Resize", "Enter", "Esc", "CtrlC", "Up", "Down", "Right", "s", "Space", "F4"}

\* ListState::select_next and select_previous (saturating), and the clamp
\* of the selection to the last item that rendering the list does
select_next(selected) == selected + 1

select_previous(selected) == Max(selected - 1, 0)

RenderList(selected, len) == IF selected >= len THEN len - 1 ELSE selected

\* MainMenuEntry::iter()
MainMenuEntries == <<"Settings", "Weather", "AsciiArt", "BinaryNumbers", "DinoJump", "Exit">>

\* StatefulMenu::get_selected_entry
get_selected_entry(selected) ==
    IF selected < Len(MainMenuEntries) THEN Some(MainMenuEntries[selected + 1]) ELSE None

\* MainMenuEntry::get_main_screen_widget
get_main_screen_widget(entry, seed) ==
    CASE entry = "Settings" -> Some([kind |-> "SettingsMain"])
      [] entry = "Weather" -> Some([kind |-> "WeatherMain"])
      [] entry = "AsciiArt" -> Some([kind |-> "AsciiArtMain"])
      [] entry = "BinaryNumbers" ->
             Some([kind |-> "BinaryNumbersGame", game |-> NewGame("Eight", seed)])
      [] OTHER -> None

\* MainScreenWidget::run, handle_input and is_exit_intended of the widgets;
\* those of SettingsMain, WeatherMain and AsciiArtMain do nothing
WidgetRun(w, dt) ==
    IF w.kind = "BinaryNumbersGame" THEN [w EXCEPT !.game = Run(@, dt)] ELSE w

WidgetHandleInput(w, key, seed) ==
    IF w.kind = "BinaryNumbersGame"
    THEN [w EXCEPT !.game = handle_game_input(@, key, seed)]
    ELSE w

is_exit_intended(w) == IF w.kind = "BinaryNumbersGame" THEN w.game.exit_intended ELSE FALSE

\* App::new
NewApp ==
    [kind |-> "App",
     running |-> TRUE,
     debug_mode |-> TRUE,
     current_main_widget |-> None,
     main_menu |-> 0,
     refresh_without_inputs |-> TRUE,
     elapsed |-> 0,
     event_read |-> FALSE]

\* handle_main_menu_inputs
handle_main_menu_inputs(app, key, seed) ==
    LET nav == CASE key = "Up" -> [app EXCEPT !.main_menu = select_previous(@)]
                 [] key = "Down" -> [app EXCEPT !.main_menu = select_next(@)]
                 [] OTHER -> app
    IN  IF key # "Enter" THEN nav
        ELSE IF get_selected_entry(nav.main_menu) = Some("Exit")
        THEN [nav EXCEPT !.running = FALSE]
        ELSE [nav EXCEPT !.current_main_widget =
                  IF get_selected_entry(nav.main_menu) = None THEN None
                  ELSE get_main_screen_widget(get_selected_entry(nav.main_menu)[1], seed)]

\* handle_input of app.rs
handle_input(app, key, seed) ==
    LET first == CASE key = "CtrlC" -> [app EXCEPT !.running = FALSE]
                   [] key = "Space" -> [app EXCEPT !.refresh_without_inputs = ~@]
                   [] key = "Esc" -> [app EXCEPT !.current_main_widget = None]
                   [] key = "F4" -> [app EXCEPT !.debug_mode = ~@]
                   [] OTHER -> app
    IN  IF first.current_main_widget = None
        THEN handle_main_menu_inputs(first, key, seed)
        ELSE [first EXCEPT !.current_main_widget =
                  Some(WidgetHandleInput(first.current_main_widget[1], key, seed))]

\* App::handle_crossterm_events: only a key press is handled
handle_crossterm_events(app, event, seed) ==
    IF event \in {"NoEvent", "Resize"} THEN app ELSE handle_input(app, event, seed)

\* mutant of AppFrame: the attached widget is not run
AppFrame_NoRun(app, dt) ==
    LET drawn == [app EXCEPT !.main_menu = RenderList(@, Len(MainMenuEntries))]
    IN  IF drawn.current_main_widget = None THEN drawn
        ELSE [drawn EXCEPT !.current_main_widget =
                 IF is_exit_intended(drawn.current_main_widget[1]) THEN None ELSE @]

\* the part of an iteration of App::run before the events: draw, run(dt),
\* the exit check
AppFrame(app, dt) ==
    LET drawn == [app EXCEPT !.main_menu = RenderList(@, Len(MainMenuEntries))]
    IN  IF drawn.current_main_widget = None THEN drawn
        ELSE LET w == WidgetRun(drawn.current_main_widget[1], dt)
             IN  [drawn EXCEPT !.current_main_widget =
                      IF is_exit_intended(w) THEN None ELSE Some(w)]

\* one iteration of the loop of App::run
AppIteration(app, dt, event, seed) == handle_crossterm_events(AppFrame(app, dt), event, seed)

\* mutant of AppLoopCondition: the loop does not look at running
AppLoopCondition_Always(app) == TRUE

\* the condition of the loop of App::run
AppLoopCondition(app) == app.running

\* StartMenuState::new
StartMenuState_new == [tag |-> "Start", selected |-> 1]

\* the items of the start menu
StartItems == <<"Four", "Eight", "Twelve", "Sixteen">>

\* handle_start_input, with unwrap_or(AppState::Start(menu)) of its caller
handle_start_input(menu, key, seed) ==
    CASE key = "Up" -> [menu EXCEPT !.selected = select_previous(@)]
      [] key = "Down" -> [menu EXCEPT !.selected = select_next(@)]
      [] key = "Enter" ->
             [tag |-> "Playing", game |-> NewGame(StartItems[menu.selected + 1], seed)]
      [] key \in {"Esc", "CtrlC"} -> [tag |-> "Exit"]
      [] OTHER -> menu

\* mutant of handle_game_key: Ctrl+C is handed on as it is
handle_game_key_CtrlCKept(g, key, seed) == handle_game_input(g, key, seed)

\* handle_game_key
handle_game_key(g, key, seed) ==
    IF key = "CtrlC" THEN handle_game_input(g, "Esc", seed)
    ELSE handle_game_input(g, key, seed)

\* the event handling of an iteration of run_app
RunAppEvent(state, event, seed) ==
    IF event \in {"NoEvent", "Resize"} THEN state
    ELSE IF state.tag = "Start" THEN handle_start_input(state, event, seed)
    ELSE IF state.tag = "Playing"
    THEN [state EXCEPT !.game = handle_game_key(@, event, seed)]
    ELSE state

\* one iteration of the loop of run_app
RunAppIteration(state, dt, event, seed) ==
    IF state.tag = "Playing"
    THEN LET g == Run(state.game, dt)
         IN  IF g.exit_intended THEN StartMenuState_new
             ELSE RunAppEvent([state EXCEPT !.game = g], event, seed)
    ELSE IF state.tag = "Start"
    THEN RunAppEvent([state EXCEPT !.selected = RenderList(@, Len(StartItems))], event, seed)
    ELSE state

\* the condition of the loop of run_app
RunAppLoopCondition(state) == state.tag # "Exit"

\* the game a host has attached, if any
AttachedGame(h) ==
    IF h.kind = "App"
    THEN IF h.current_main_widget # None /\ h.current_main_widget[1].kind = "BinaryNumbersGame"
         THEN Some(h.current_main_widget[1].game) ELSE None
    ELSE IF h.app_state.tag = "Playing" THEN Some(h.app_state.game) ELSE None

\* Enter is not read when it would start a round beyond MaxRounds
EventAllowed(h, dt, event) ==
    event = "Enter" /\ AttachedGame(h) # None =>
        LET g == Run(AttachedGame(h)[1], dt)
        IN  WouldAdvance(g) => g.rounds < MaxRounds

\* run_app before its loop: the start menu, last_frame_time = now
NewRunApp ==
    [kind |-> "run_app",
     app_state |-> StartMenuState_new,
     elapsed |-> 0,
     event_read |-> FALSE]

\* the iteration of run_app leaves by continue, before it polls
Continues(state, dt) == state.tag = "Playing" /\ Run(state.game, dt).exit_intended

\* mutant of Iterate: the time spent waiting for the event is ticked before
\* the event is handled
Iterate_ChargesWaitFirst(h, wait, event, seed) ==
    IF h.kind = "App"
    THEN [handle_crossterm_events(AppFrame(AppFrame(h, h.elapsed), wait), event, seed)
              EXCEPT !.elapsed = 0, !.event_read = event # "NoEvent"]
    ELSE [h EXCEPT !.app_state = RunAppIteration(@, h.elapsed, event, seed),
                   !.elapsed = wait,
                   !.event_read = event # "NoEvent" /\ ~Continues(h.app_state, h.elapsed)]

\* mutant of Iterate: the time of the iteration is ticked at once
Iterate_TicksWait(h, wait, event, seed) ==
    IF h.kind = "App"
    THEN [AppIteration(h, wait, event, seed) EXCEPT !.elapsed = wait,
                                                    !.event_read = event # "NoEvent"]
    ELSE [h EXCEPT !.app_state = RunAppIteration(@, wait, event, seed),
                   !.elapsed = wait,
                   !.event_read = event # "NoEvent" /\ ~Continues(h.app_state, wait)]

\* one iteration of the loop of host h: dt is the time since last_frame_time,
\* and the iteration takes the time wait before the next one begins
Iterate(h, wait, event, seed) ==
    IF h.kind = "App"
    THEN [AppIteration(h, h.elapsed, event, seed) EXCEPT !.elapsed = wait,
                                                         !.event_read = event # "NoEvent"]
    ELSE [h EXCEPT !.app_state = RunAppIteration(@, h.elapsed, event, seed),
                   !.elapsed = wait,
                   !.event_read = event # "NoEvent" /\ ~Continues(h.app_state, h.elapsed)]

\* the seeds the games of a host are generated from
HostSeeds == {0}

InitHost ==
    /\ host \in {NewApp, NewRunApp}
    /\ game = Unused
    /\ clock = Unused
    /\ text = Unused

\* an iteration of App::run; in performance mode it blocks until an event
AppLoop ==
    /\ host.kind = "App"
    /\ AppLoopCondition(host)
    /\ \E wait \in DtSet, event \in HostEvents :
           /\ ~host.refresh_without_inputs => event # "NoEvent"
           /\ EventAllowed(host, host.elapsed, event)
           /\ \E seed \in HostSeeds : host' = Iterate(host, wait, event, seed)
    /\ UNCHANGED <<game, clock, text>>

\* an iteration of run_app
RunAppLoop ==
    /\ host.kind = "run_app"
    /\ RunAppLoopCondition(host.app_state)
    /\ \E wait \in DtSet, event \in HostEvents :
           /\ EventAllowed(host, host.elapsed, event)
           /\ \E seed \in HostSeeds : host' = Iterate(host, wait, event, seed)
    /\ UNCHANGED <<game, clock, text>>

NextHost ==
    \/ AppLoop
    \/ RunAppLoop

SpecHost == InitHost /\ [][NextHost]_vars

(***************************************************************************)
(* The template App of src/src/main.rs: running, margin_size and rects,    *)
(* changed by on_key_event.  The tests of main.rs call on_key_event on an  *)
(* App directly, also after quit() has cleared running, so the key handler *)
(* is an operation of its own here.  margin_size and rects are u16: an     *)
(* addition that overflows panics in a build with overflow checks (debug)  *)
(* and wraps in one without (release).  The App is held in host.           *)
(***************************************************************************)
\* u16::MAX
U16Max == 65535

\* the two kinds of build
Builds == {"debug", "release"}

\* the keys on_key_event tells apart, "Other" for every other key
TemplateKeys == {"Esc", "q", "CtrlC", "Up", "Down", "Left", "Right", "Other"}

\* App::new of main.rs; panicked, which the source does not have, tells
\* that the process has panicked
NewTemplateApp ==
    [kind |-> "main",
     running |-> TRUE,
     margin_size |-> 0,
     rects |-> 1,
     panicked |-> FALSE]

\* self.margin_size += 1 on a u16
IncrementMargin(app, build) ==
    IF app.margin_size < U16Max THEN [app EXCEPT !.margin_size = @ + 1]
    ELSE IF build = "debug" THEN [app EXCEPT !.panicked = TRUE]
    ELSE [app EXCEPT !.margin_size = (@ + 1) % (U16Max + 1)]

\* App::on_key_event of main.rs
on_key_event(app, key, build) ==
    CASE key \in {"Esc", "q", "CtrlC"} -> [app EXCEPT !.running = FALSE]
      [] key = "Up" -> IncrementMargin(app, build)
      [] key = "Down" /\ app.margin_size > 0 -> [app EXCEPT !.margin_size = @ - 1]
      [] key = "Left" /\ app.rects > 1 -> [app EXCEPT !.rects = @ - 1]
      [] key = "Right" /\ app.rects < 10 -> [app EXCEPT !.rects = @ + 1]
      [] OTHER -> app

InitTemplate ==
    /\ host = NewTemplateApp
    /\ game = Unused
    /\ clock = Unused
    /\ text = Unused

\* a key press handed to on_key_event
TemplateKey ==
    /\ ~host.panicked
    /\ \E key \in TemplateKeys, build \in Builds : host' = on_key_event(host, key, build)
    /\ UNCHANGED <<game, clock, text>>

NextTemplate == TemplateKey

SpecTemplate == InitTemplate /\ [][NextTemplate]_vars

(***************************************************************************)
(* BinaryNumbersPuzzle::new on its own: game holds the arguments of a     *)
(* call, the state of the random stream among them, and the puzzle built. *)
(***************************************************************************)
MaxStreak == 32

InitPuzzle ==
    /\ game \in {[bits |-> bits, streak |-> streak, seed |-> seed, puzzle |-> None] :
                     bits \in AllBits, streak \in 0..MaxStreak, seed \in Seeds}
    /\ clock = Unused
    /\ host = Unused
    /\ text = Unused

\* a call of BinaryNumbersPuzzle::new
BuildPuzzle ==
    /\ game.puzzle = None
    /\ game' = [game EXCEPT !.puzzle = Some(NewPuzzle(game.bits, game.streak, game.seed))]
    /\ UNCHANGED <<clock, host, text>>

NextPuzzle == BuildPuzzle

SpecPuzzle == InitPuzzle /\ [][NextPuzzle]_vars

(***************************************************************************)
(* The generation loop of BinaryNumbersPuzzle::new with the random draws  *)
(* left open: game holds the bit width, the suggestions pushed so far and *)
(* the position of the control, in the loop or past it.  The draws are    *)
(* the values of the width's range up to MaxDraw.  A draw that is         *)
(* rejected leaves the state as it is; the random source is fair, so the  *)
(* loop is not kept from a draw that pushes for ever.                      *)
(***************************************************************************)
MaxDraw == 6

\* the values of rng.random_range(0..=bits.upper_bound()) drawn
Draws(bits) == {num \in 0..MaxDraw : num <= upper_bound(bits)}

\* the body of the loop for the draw num
LoopBody(suggestions, num) ==
    IF ~contains(suggestions, num) THEN Append(suggestions, num) ELSE suggestions

InitGen ==
    /\ game \in {[bits |-> bits, suggestions |-> <<>>, pc |-> "loop"] : bits \in AllBits}
    /\ clock = Unused
    /\ host = Unused
    /\ text = Unused

\* an iteration of the loop
Draw ==
    /\ game.pc = "loop"
    /\ Len(game.suggestions) < suggestion_count(game.bits)
    /\ \E num \in Draws(game.bits) :
           game' = [game EXCEPT !.suggestions = LoopBody(@, num)]
    /\ UNCHANGED <<clock, host, text>>

\* the loop condition fails and the constructor goes on
LeaveLoop ==
    /\ game.pc = "loop"
    /\ ~(Len(game.suggestions) < suggestion_count(game.bits))
    /\ game' = [game EXCEPT !.pc = "done"]
    /\ UNCHANGED <<clock, host, text>>

NextGen ==
    \/ Draw
    \/ LeaveLoop

SpecGen == InitGen /\ [][NextGen]_vars /\ WF_vars(Draw) /\ WF_vars(LeaveLoop)

(***************************************************************************)
(* TrimMargin::nice of utils.rs.  A string is a sequence of characters;    *)
(* the strings handed to nice are those of at most MaxLen characters over  *)
(* a space, a letter and a newline.  Within this alphabet the space is the *)
(* only whitespace a line can hold, and every character is one byte, so    *)
(* that len() and chars().count() agree.                                   *)
(***************************************************************************)
MaxLen == 8

NL == "\n"

Chars == {" ", "x", NL}

Strings == UNION {[1..n -> Chars] : n \in 0..MaxLen}

\* the pieces of s between its newlines, one more than it has newlines
RECURSIVE Split(_)
Split(s) ==
    IF Len(s) = 0 THEN << <<>> >>
    ELSE LET rest == Split(Tail(s))
         IN  IF Head(s) = NL THEN << <<>> >> \o rest
             ELSE << <<Head(s)>> \o Head(rest) >> \o Tail(rest)

\* str::lines: the pieces between newlines, without the empty piece that
\* follows a final newline
Lines(s) ==
    LET parts == Split(s)
    IN  IF Len(parts[Len(parts)]) = 0 THEN SubSeq(parts, 1, Len(parts) - 1) ELSE parts

\* line.trim().is_empty()
IsBlank(line) == \A i \in 1..Len(line) : line[i] = " "

\* line.chars().take_while(|&c| c == ' ').count()
RECURSIVE LeadingSpaces(_)
LeadingSpaces(line) ==
    IF Len(line) > 0 /\ Head(line) = " " THEN 1 + LeadingSpaces(Tail(line)) ELSE 0

\* the minimum taken over every line, the blank ones too
MinIndent_CountsBlank(content_lines) ==
    LET counts == {LeadingSpaces(content_lines[i]) : i \in 1..Len(content_lines)}
    IN  IF counts = {} THEN 0 ELSE CHOOSE n \in counts : \A m \in counts : n <= m

\* indent: the minimum of the leading spaces of the non-blank lines, 0 if
\* there is none
MinIndent(content_lines) ==
    LET counts == {LeadingSpaces(content_lines[i]) :
                       i \in {j \in 1..Len(content_lines) : ~IsBlank(content_lines[j])}}
    IN  IF counts = {} THEN 0 ELSE CHOOSE n \in counts : \A m \in counts : n <= m

\* the closure trimmed
Trimmed(line, indent) ==
    IF Len(line) >= indent THEN SubSeq(line, indent + 1, Len(line)) ELSE line

\* join("\n")
RECURSIVE Join(_)
Join(lines) ==
    IF Len(lines) = 0 THEN <<>>
    ELSE IF Len(lines) = 1 THEN lines[1]
    ELSE lines[1] \o <<NL>> \o Join(Tail(lines))

\* lines[1..lines.len().saturating_sub(1)]
ContentLines(lines) == SubSeq(lines, 2, Len(lines) - 1)

\* nice; the slice panics when the string has fewer than two lines
nice(s) ==
    LET lines == Lines(s)
        content_lines == ContentLines(lines)
        indent == MinIndent(content_lines)
    IN  IF Len(lines) < 2
        THEN [input |-> s, done |-> TRUE, panicked |-> TRUE, output |-> <<>>]
        ELSE [input |-> s, done |-> TRUE, panicked |-> FALSE,
              output |-> Join([i \in 1..Len(content_lines) |->
                                   Trimmed(content_lines[i], indent)])]

InitNice ==
    /\ text \in {[input |-> s, done |-> FALSE, panicked |-> FALSE, output |-> <<>>] :
                     s \in Strings}
    /\ game = Unused
    /\ clock = Unused
    /\ host = Unused

\* a call of nice on the string
Nice ==
    /\ ~text.done
    /\ text' = nice(text.input)
    /\ UNCHANGED <<game, clock, host>>

NextNice == Nice

SpecNice == InitNice /\ [][NextNice]_vars

(***************************************************************************)
(* Vocabulary of the properties.                                           *)
(***************************************************************************)
\* this step replaces the puzzle wholesale: advance_round or reset
Replaced ==
    \E seed \in Seeds :
        \/ game' = AdvanceRound(game, seed)
        \/ game' = reset_game_state(game, seed)

\* this step is the explicit reset
IsReset == \E seed \in Seeds : game.game_over /\ game' = reset_game_state(game, seed)

\* this step runs the body of finalize_round on an outcome in `results`
Finalizing(results) ==
    /\ game'.puzzle.scored = game.puzzle.scored + 1
    /\ is_some(game'.puzzle.guess_result)
    /\ game'.puzzle.guess_result[1] \in results

\* the number of Correct outcomes at the end of a history
RECURSIVE TrailingCorrect(_)
TrailingCorrect(h) ==
    IF h = <<>> \/ h[Len(h)] # "Correct" THEN 0
    ELSE 1 + TrailingCorrect(SubSeq(h, 1, Len(h) - 1))

(***************************************************************************)
(* Properties.                                                             *)
(***************************************************************************)
\* C1: under any sequence of ticks and key inputs, finalize_round scores a
\* puzzle at most once between its creation and its replacement.
C1_FinalizedAtMostOnce == game.puzzle.scored <= 1

\* C1 witness: a second round has been scored and its puzzle is still current.
C1_Witness ==
    /\ game.puzzle.scored = 1
    /\ game.rounds = 2
    /\ game.lives = 1
    /\ game.puzzle.guess_result = Some("Timeout")

\* C2: lives = 0 exactly when game_over, in every reachable state, and
\* game_over goes back to false only in the reset step (Enter on game over).
C2_LivesZeroIffGameOver ==
    /\ game.lives = 0 <=> game.game_over
    /\ [][/\ game'.lives = 0 <=> game'.game_over
          /\ game.game_over /\ ~game'.game_over => IsReset]_vars

\* C2 witness: the session is over with no life left.
C2_Witness == game.game_over /\ game.lives = 0 /\ game.rounds = 3

\* C3: after every run(dt) and every handle_game_input, puzzle_resolved is
\* true exactly when the current puzzle's guess_result is set.
C3_ResolvedIffOutcome == game.puzzle_resolved <=> is_some(game.puzzle.guess_result)

\* C3 witness: an outcome set by a confirmed guess, and scored.
C3_Witness == game.puzzle_resolved /\ game.puzzle.guess_result = Some("Incorrect")

\* C4: once guess_result is Some(x), a step either keeps it or replaces the
\* puzzle (advance_round, reset), which clears it.
C4_OutcomeImmutable ==
    [][is_some(game.puzzle.guess_result) =>
          \/ game'.puzzle.guess_result = game.puzzle.guess_result
          \/ Replaced /\ game'.puzzle.guess_result = None]_vars

\* C4 witness: a Correct outcome on a puzzle whose clock had not run out.
C4_Witness ==
    /\ game.puzzle.guess_result = Some("Correct")
    /\ game.puzzle.time_left > 0
    /\ game.puzzle.time_left < game.puzzle.time_total

\* C5: once the outcome is set, time_left and the selection stay as they are
\* for as long as the puzzle is the current one.
C5_FrozenAfterOutcome ==
    [][is_some(game.puzzle.guess_result) =>
          \/ /\ game'.puzzle.time_left = game.puzzle.time_left
             /\ game'.puzzle.selected_suggestion = game.puzzle.selected_suggestion
          \/ Replaced]_vars

\* C5 witness: an outcome set with time left and the selection moved off the
\* first suggestion.
C5_Witness ==
    /\ is_some(game.puzzle.guess_result)
    /\ game.puzzle.time_left > 0
    /\ game.puzzle.selected_suggestion # Some(game.puzzle.suggestions[1])

\* C6: in every reachable state the puzzle has suggestion_count(bits)
\* suggestions, pairwise distinct, each within 0..upper_bound(bits), and the
\* target current_number is one of them.
C6_SuggestionsWellFormed ==
    LET p == game.puzzle
    IN  /\ p.bits = game.bits
        /\ Len(p.suggestions) = suggestion_count(game.bits)
        /\ \A i, j \in 1..Len(p.suggestions) :
               i # j => p.suggestions[i] # p.suggestions[j]
        /\ \A i \in 1..Len(p.suggestions) :
               p.suggestions[i] \in 0..upper_bound(game.bits)
        /\ contains(p.suggestions, p.current_number)

\* C6 witness: a 16-bit puzzle of a later round, with six suggestions.
C6_Witness ==
    /\ game.bits = "Sixteen"
    /\ game.rounds >= 1
    /\ game.puzzle.scored = 0
    /\ Len(game.puzzle.suggestions) = 6

\* C7: finalizing a Correct outcome adds 1 to rounds and to streak and adds
\* 10 + 2 * (the new streak) to score; the first Correct of a fresh session
\* gives score 12, streak 1, rounds 1, lives 3.
C7_CorrectScoring ==
    [][Finalizing({"Correct"}) =>
          /\ game'.rounds = game.rounds + 1
          /\ game'.streak = game.streak + 1
          /\ game'.score = game.score + 10 + 2 * game'.streak
          /\ game.rounds = 0 =>
                 /\ game'.score = 12
                 /\ game'.streak = 1
                 /\ game'.rounds = 1
                 /\ game'.lives = 3]_vars

\* C7 witness: two Correct rounds in a row from a fresh session.
C7_Witness ==
    /\ game.history = <<"Correct", "Correct">>
    /\ game.score = 26
    /\ game.streak = 2

\* C8: a finalization adds a life exactly when the outcome is Correct, the
\* incremented streak is a multiple of 5 and lives < MAX_LIVES; no
\* finalization adds more than one, and lives never exceeds MAX_LIVES.
C8_LifeGain ==
    /\ game.lives <= MAX_LIVES
    /\ [][/\ game'.lives <= MAX_LIVES
          /\ Finalizing({"Correct", "Incorrect", "Timeout"}) =>
             /\ game'.lives <= game.lives + 1
             /\ game'.lives = game.lives + 1 <=>
                    /\ game'.puzzle.guess_result = Some("Correct")
                    /\ game'.streak % 5 = 0
                    /\ game.lives < MAX_LIVES]_vars

\* C8 witness: the streak reached 15 with lives already at the cap.
C8_Witness == game.streak = 15 /\ game.lives = MAX_LIVES

\* C9: streak equals the number of consecutive Correct rounds scored last,
\* and every Correct finalization strictly increases score.
C9_StreakCountsCorrect ==
    /\ game.streak = TrailingCorrect(game.history)
    /\ [][/\ game'.streak = TrailingCorrect(game'.history)
          /\ Finalizing({"Correct"}) => game'.score > game.score]_vars

\* C9 witness: twelve Correct rounds in a row after a lost round.
C9_Witness ==
    /\ Len(game.history) = 13
    /\ game.history[1] = "Timeout"
    /\ game.streak = 12

\* C10: finalizing an Incorrect or Timeout outcome adds 1 to rounds, sets
\* streak to 0, takes exactly one life (lives was positive), leaves score
\* unchanged and sets game_over exactly when lives has become 0.
C10_WrongScoring ==
    [][Finalizing({"Incorrect", "Timeout"}) =>
          /\ game'.rounds = game.rounds + 1
          /\ game'.streak = 0
          /\ game.lives >= 1
          /\ game'.lives = game.lives - 1
          /\ game'.score = game.score
          /\ game'.game_over <=> game'.lives = 0]_vars

\* C10 witness: a streak broken by an Incorrect guess, one life gone.
C10_Witness ==
    /\ game.history = <<"Correct", "Incorrect">>
    /\ game.streak = 0
    /\ game.lives = 2
    /\ game.score = 12

\* every outcome of a history is Incorrect or Timeout
AllWrong(h) == \A i \in 1..Len(h) : h[i] \in {"Incorrect", "Timeout"}

\* this step is a reset, told by what it does to the counters
ResetStep ==
    \/ game'.rounds < game.rounds
    \/ game'.score < game.score
    \/ game'.history = <<>> /\ game.history # <<>>

\* the session fields and the puzzle fields a frozen session keeps
Frozen(g) ==
    <<g.score, g.streak, g.rounds, g.lives, g.game_over, g.puzzle_resolved,
      g.puzzle.guess_result, g.puzzle.time_left, g.puzzle.selected_suggestion,
      g.puzzle.current_number, g.puzzle.suggestions>>

\* what finalize_round leaves behind, apart from the puzzle's clock
Scored(g) ==
    <<g.score, g.streak, g.rounds, g.lives, g.game_over, g.puzzle_resolved,
      g.puzzle.guess_result, g.history>>

\* outcome, target and suggestions of a puzzle
Resolution(p) == <<p.guess_result, p.current_number, p.suggestions>>

\* C11: from a fresh session, rounds lost in a row take one life each; the
\* third sets game_over with lives 0, and game_over is not set before three
\* rounds have been scored.
C11_GameOverAtThirdWrong ==
    /\ AllWrong(game.history) /\ Len(game.history) <= 3 =>
           game.lives = 3 - Len(game.history)
    /\ AllWrong(game.history) /\ Len(game.history) = 3 =>
           game.game_over /\ game.lives = 0
    /\ Len(game.history) < 3 => ~game.game_over

\* C11 witness: three rounds lost in a row, by guess and by timeout.
C11_Witness ==
    /\ game.history = <<"Incorrect", "Timeout", "Incorrect">>
    /\ game.game_over

\* C12: a reset step starts from game_over and leaves score 0, streak 0,
\* rounds 0, lives 3, game_over false, puzzle_resolved false and a puzzle
\* newly generated with streak 0.
C12_ResetOnlyFromGameOver ==
    [][ResetStep =>
          /\ game.game_over
          /\ game'.score = 0
          /\ game'.streak = 0
          /\ game'.rounds = 0
          /\ game'.lives = 3
          /\ ~game'.game_over
          /\ ~game'.puzzle_resolved
          /\ game'.puzzle.guess_result = None
          /\ game'.puzzle.time_left = game'.puzzle.time_total
          /\ \E seed \in Seeds : game'.puzzle = NewPuzzle(game.bits, 0, seed)]_vars

\* C12 witness: a session that is over with a score to wipe.
C12_Witness == game.game_over /\ game.score > 0 /\ ~game.exit_intended

\* C13: while game_over is true, a step is the reset or leaves the session
\* counters, the flags and the puzzle as they are.
C13_GameOverTerminal ==
    [][game.game_over => Frozen(game') = Frozen(game) \/ IsReset]_vars

\* C13 witness: Esc was pressed and the session is over.
C13_Witness == game.game_over /\ game.exit_intended /\ game.lives = 0

\* C14: skip on a round with no outcome sets Timeout and scores it in the
\* same step, as a tick that runs the clock out would; skip on a round with
\* an outcome changes nothing.
C14_SkipIsTimeout ==
    \A key \in {"s", "S"} :
        LET after == handle_game_input(game, key, 0)
            natural == Run(game, game.puzzle.time_left)
        IN  IF ~game.game_over /\ game.puzzle.guess_result = None
            THEN /\ after.puzzle.guess_result = Some("Timeout")
                 /\ after.streak = 0
                 /\ after.lives = game.lives - 1
                 /\ after.puzzle_resolved
                 /\ after.puzzle.scored = 1
                 /\ Scored(after) = Scored(natural)
            ELSE after = game

\* C14 witness: a round timed out with its clock untouched, which only a skip
\* does.
C14_Witness ==
    /\ game.puzzle.guess_result = Some("Timeout")
    /\ game.puzzle.time_left = game.puzzle.time_total
    /\ game.puzzle_resolved

\* C15: Enter on a round with no outcome and a selection sets Correct when
\* the selection is the target and Incorrect otherwise, and the round is
\* scored when the handler returns.
C15_ConfirmScoresAtOnce ==
    LET after == handle_game_input(game, "Enter", 0)
        p == game.puzzle
    IN  ~game.game_over /\ p.guess_result = None /\ is_some(p.selected_suggestion) =>
            /\ after.puzzle.guess_result =
                   Some(IF p.selected_suggestion[1] = p.current_number
                        THEN "Correct" ELSE "Incorrect")
            /\ after.puzzle_resolved
            /\ after.puzzle.scored = 1
            /\ after.rounds = game.rounds + 1

\* C15 witness: a Correct guess on a suggestion other than the first.
C15_Witness ==
    /\ game.puzzle.guess_result = Some("Correct")
    /\ game.puzzle.selected_suggestion # Some(game.puzzle.suggestions[1])
    /\ game.puzzle_resolved

C18_HintFlipsAlways ==
    \A key \in {"h", "H"} :
        handle_game_input(game, key, 0).puzzle.show_hint = ~game.puzzle.show_hint

\* C18 amended: h or H flips show_hint while game_over is false, before and
\* after the outcome is set, and changes nothing while game_over is true.
C18_HintFlipsUnlessGameOver ==
    \A key \in {"h", "H"} :
        LET after == handle_game_input(game, key, 0)
        IN  IF game.game_over
            THEN after = game
            ELSE after = [game EXCEPT !.puzzle.show_hint = ~game.puzzle.show_hint]

\* C18 witness: the hint shown on a round whose outcome is set, in a session
\* that has scored a round before.
C18_Witness ==
    /\ game.history # <<>>
    /\ is_some(game.puzzle.guess_result)
    /\ game.puzzle.show_hint
    /\ ~game.game_over

\* C19: a session starts (and restarts) with lives 3, score 0, streak 0,
\* rounds 0 and game_over false; lives stays within 0..MAX_LIVES, so the
\* count of empty hearts MAX_LIVES - lives is never negative.
C19_LivesInRange ==
    /\ game.history = <<>> =>
           /\ game.lives = 3
           /\ game.score = 0
           /\ game.streak = 0
           /\ game.rounds = 0
           /\ ~game.game_over
    /\ game.lives \in 0..MAX_LIVES
    /\ lives_hearts(game).empty >= 0
    /\ lives_hearts(game).full + lives_hearts(game).empty = MAX_LIVES

\* C19 witness: all five lives held, no empty heart.
C19_Witness == game.lives = MAX_LIVES /\ lives_hearts(game).empty = 0

\* C16 as stated: with any fixed dt > 0, Timeout is set within
\* ceil(time_total/dt) ticks, that is, as soon as the ticks' dt add up to
\* time_total; and Timeout is set exactly when time_left is 0.
C16_TimeoutWithinCeil ==
    /\ ~F64Less(clock.elapsed, clock.time_total) =>
           clock.guess_result = Some("Timeout")
    /\ clock.guess_result = Some("Timeout") <=> clock.time_left = F64Zero

\* C16 amended: with a fixed dt > 0 that is a whole multiple of 2^-14 s,
\* Timeout is set within ceil(time_total/dt) ticks; with every dt Timeout is
\* set exactly when time_left is 0, and no outcome but Timeout is set.
C16_TimeoutWithinCeilDyadic ==
    /\ Dyadic(clock.dt) /\ ~F64Less(clock.elapsed, clock.time_total) =>
           clock.guess_result = Some("Timeout")
    /\ clock.guess_result = Some("Timeout") <=> clock.time_left = F64Zero
    /\ clock.guess_result \in {None, Some("Timeout")}

\* C16 witness: a timer ticked by 0.25 s has run out in exactly
\* time_total / 0.25 ticks.
C16_Witness ==
    /\ clock.dt = Quarter
    /\ clock.elapsed = clock.time_total
    /\ clock.guess_result = Some("Timeout")

\* the loop of the host has been told to stop
Stopped(h) == IF h.kind = "App" THEN ~h.running ELSE h.app_state.tag = "Exit"

\* the event is a quit signal for the host in state h: Ctrl+C, or Enter on
\* the Exit entry of the main menu, in App; Esc or Ctrl+C on the start menu
\* in run_app
QuitSignal(h, event) ==
    IF h.kind = "App"
    THEN \/ event = "CtrlC"
         \/ /\ event = "Enter"
            /\ h.current_main_widget = None
            /\ get_selected_entry(RenderList(h.main_menu, Len(MainMenuEntries))) = Some("Exit")
    ELSE h.app_state.tag = "Start" /\ event \in {"Esc", "CtrlC"}

\* this step is an iteration of the host's loop that reads a quit signal
QuitStep ==
    \E wait \in DtSet, event \in HostEvents, seed \in Seeds :
        /\ QuitSignal(host, event)
        /\ host' = Iterate(host, wait, event, seed)

\* C20: once the quit signal is set the loop takes no further iteration; an
\* attached game whose exit_intended flag is set is detached by the next
\* iteration, which leaves the host on its menu with the loop running; a
\* game that is detached (Esc in App) never stops the loop; and the loop is
\* stopped only by an iteration that reads a quit signal.
C20_QuitStopsExitDetaches ==
    [][/\ ~Stopped(host)
       /\ AttachedGame(host) # None /\ AttachedGame(host)[1].exit_intended =>
              /\ AttachedGame(host') = None
              /\ ~Stopped(host')
              /\ host.kind = "run_app" => host'.app_state = StartMenuState_new
       /\ AttachedGame(host) # None /\ AttachedGame(host') = None => ~Stopped(host')
       /\ Stopped(host') => QuitStep]_vars

\* C20 witness: in run_app a game that has scored a round has taken Esc and
\* waits for the iteration that detaches it.
C20_Witness ==
    /\ host.kind = "run_app"
    /\ host.app_state.tag = "Playing"
    /\ host.app_state.game.exit_intended
    /\ host.app_state.game.rounds > 0

\* the host polls for events with a timeout: run_app always, App while
\* refresh_without_inputs is set
RealTime(h) == h.kind = "run_app" \/ h.refresh_without_inputs

\* host h after iterations that read no event and take the time d each, up
\* to the first one that leaves the attached game with an outcome, or
\* without a game, and at most fuel of them
RECURSIVE IdleFrames(_, _, _)
IdleFrames(h, d, fuel) ==
    IF fuel = 0 \/ AttachedGame(h) = None \/ is_some(AttachedGame(h)[1].puzzle.guess_result)
    THEN h
    ELSE IdleFrames(Iterate(h, d, "NoEvent", 0), d, fuel - 1)

\* left without input in real-time mode, the unresolved round of h ends as
\* Timeout, scored once and for one life
IdleTimesOut(h) ==
    /\ RealTime(h)
    /\ ~Stopped(h)
    /\ AttachedGame(h) # None
    /\ AttachedGame(h)[1].puzzle.guess_result = None
    /\ ~AttachedGame(h)[1].exit_intended
    => \A d \in {MaxDt \div 2, MaxDt} :
           LET g == AttachedGame(h)[1]
               after == IdleFrames(h, d, g.puzzle.time_left + 1)
           IN  /\ AttachedGame(after) # None
               /\ AttachedGame(after)[1].puzzle =
                      [g.puzzle EXCEPT !.guess_result = Some("Timeout"),
                                       !.time_left = 0,
                                       !.scored = 1]
               /\ AttachedGame(after)[1].lives = g.lives - 1
               /\ AttachedGame(after)[1].rounds = g.rounds + 1
               /\ AttachedGame(after)[1].score = g.score
               /\ AttachedGame(after)[1].puzzle_resolved

\* the key a game attached to host h is handed for the event
GameKey(h, event) == IF h.kind = "run_app" /\ event = "CtrlC" THEN "Esc" ELSE event

\* whatever event an iteration of h reads, it first runs the attached game
\* by the dt of the iteration and then hands the key to the game so run
TickThenInput(h) ==
    AttachedGame(h) # None /\ ~Stopped(h) =>
        \A event \in HostEvents :
            \A seed \in HostSeeds :
                LET after == Iterate(h, 0, event, seed)
                    ran == Run(AttachedGame(h)[1], h.elapsed)
                IN  \/ AttachedGame(after) = None
                    \/ AttachedGame(after)[1] =
                           handle_game_input(ran, GameKey(h, event), seed)

\* C21: every iteration runs the attached game by dt before it handles
\* input, with or without an event; and in real-time mode a round that has
\* no outcome and gets no input ends as Timeout for exactly one life.
C21_TickEveryIteration == TickThenInput(host) /\ IdleTimesOut(host)

\* C21 witness: in App, in real-time mode, a round timed out with the first
\* suggestion still selected and the first life lost.
C21_Witness ==
    /\ host.kind = "App"
    /\ host.refresh_without_inputs
    /\ AttachedGame(host) # None
    /\ AttachedGame(host)[1].puzzle.guess_result = Some("Timeout")
    /\ AttachedGame(host)[1].puzzle.time_left = 0
    /\ AttachedGame(host)[1].lives = 2
    /\ AttachedGame(host)[1].history = <<"Timeout">>

\* App in performance mode: refresh_without_inputs is false
Performance(h) == h.kind = "App" /\ ~h.refresh_without_inputs

\* C22: an iteration of App in performance mode ends only after it has read
\* an event; it runs the attached game once, by the time that had gone by
\* since the previous iteration began, before it handles the event; the time
\* it waits for the event is not ticked in that iteration.
C22_PerformanceBlocks ==
    [][Performance(host) =>
          /\ host'.event_read
          /\ AttachedGame(host) # None /\ AttachedGame(host') # None =>
                 \E key \in HostEvents \ {"NoEvent"} :
                     AttachedGame(host')[1] =
                         handle_game_input(Run(AttachedGame(host)[1], host.elapsed), key, 0)]_vars

\* C22 witness: in performance mode the loop has waited MaxDt for an event
\* and the round's timer has not been charged for it yet.
C22_Witness ==
    /\ Performance(host)
    /\ host.event_read
    /\ host.elapsed = MaxDt
    /\ AttachedGame(host) # None
    /\ AttachedGame(host)[1].puzzle.guess_result = None
    /\ AttachedGame(host)[1].puzzle.time_left = AttachedGame(host)[1].puzzle.time_total

\* C24: in the template App rects stays within 1..10 and margin_size is
\* never below 0; Right increments rects only while rects < 10, Left
\* decrements it only while rects > 1, Down decrements margin_size only
\* while it is > 0, and Up increments margin_size; running has no part in
\* what these keys do.
C24_TemplateKeys ==
    /\ host.rects \in 1..10
    /\ host.margin_size >= 0
    /\ \A build \in Builds :
           /\ on_key_event(host, "Right", build) =
                  [host EXCEPT !.rects = IF @ < 10 THEN @ + 1 ELSE @]
           /\ on_key_event(host, "Left", build) =
                  [host EXCEPT !.rects = IF @ > 1 THEN @ - 1 ELSE @]
           /\ on_key_event(host, "Down", build) =
                  [host EXCEPT !.margin_size = IF @ > 0 THEN @ - 1 ELSE @]
           /\ on_key_event(host, "Up", build) = [host EXCEPT !.margin_size = @ + 1]


\* n is the indentation of the lines: every non-blank line starts with n
\* spaces, one of them with no more than n, and n is 0 without such a line
IsIndent(lines, n) ==
    LET nonblank == {i \in 1..Len(lines) : ~IsBlank(lines[i])}
    IN  /\ \A i \in nonblank : \A j \in 1..n : lines[i][j] = " "
        /\ nonblank = {} => n = 0
        /\ nonblank # {} => \E i \in nonblank : lines[i][n + 1] # " "

\* the lines between the first and the last line of the string
Inner(s) == ContentLines(Lines(s))

\* C25 as stated: nice on a string of several lines drops the first and the
\* last line, takes the indentation away from every non-blank line, turns
\* every blank line into an empty line, and joins the lines with newlines.
C25_BlankLinesEmptied ==
    text.done /\ Len(Lines(text.input)) >= 2 =>
        /\ ~text.panicked
        /\ \E n \in 0..MaxLen :
               /\ IsIndent(Inner(text.input), n)
               /\ text.output =
                      Join([i \in 1..Len(Inner(text.input)) |->
                                IF IsBlank(Inner(text.input)[i]) THEN <<>>
                                ELSE SubSeq(Inner(text.input)[i], n + 1,
                                            Len(Inner(text.input)[i]))])

\* C25: nice on a string of at least two lines does not panic, drops the
\* first and the last line, takes n leading spaces away from every
\* non-blank line, n being the least number of leading spaces of a
\* non-blank line, and joins the lines with newlines; an empty line stays
\* empty, and a line of spaces only loses n of them when it has at least n
\* and is kept as it is when it has fewer.
C25_NiceTrims ==
    text.done =>
        /\ text.panicked <=> Len(Lines(text.input)) < 2
        /\ ~text.panicked =>
               \E n \in 0..MaxLen :
                   /\ IsIndent(Inner(text.input), n)
                   /\ Len(Inner(text.input)) = 0 => Len(text.output) = 0
                   /\ Len(Inner(text.input)) > 0 =>
                          LET out == Split(text.output)
                          IN  /\ Len(out) = Len(Inner(text.input))
                              /\ \A i \in 1..Len(out) :
                                     LET line == Inner(text.input)[i]
                                     IN  /\ Len(line) >= n =>
                                             line = [j \in 1..n |-> " "] \o out[i]
                                         /\ Len(line) < n => out[i] = line
                                         /\ Len(line) = 0 => Len(out[i]) = 0

\* nice has returned for a string with a non-blank line indented by two
\* spaces and a blank line of one space
C25_Witness ==
    /\ text.done
    /\ ~text.panicked
    /\ \E i, k \in 1..Len(Inner(text.input)) :
           /\ ~IsBlank(Inner(text.input)[i])
           /\ LeadingSpaces(Inner(text.input)[i]) = 2
           /\ Inner(text.input)[k] = <<" ">>


\* C26: the remaining time stays within 0 and time_total; a tick of dt
\* never raises it, sets it to max(time_left - dt, 0) while the round has
\* no outcome, and leaves it alone once there is an outcome.
C26_TimeLeftBounded ==
    /\ 0 <= game.puzzle.time_left
    /\ game.puzzle.time_left <= game.puzzle.time_total
    /\ \A dt \in DtSet :
           LET after == Run(game, dt).puzzle
           IN  /\ after.time_left <= game.puzzle.time_left
               /\ after.time_total = game.puzzle.time_total
               /\ game.puzzle.guess_result = None =>
                      after.time_left = Max(game.puzzle.time_left - dt, 0)
               /\ is_some(game.puzzle.guess_result) =>
                      after.time_left = game.puzzle.time_left

\* a tick has cut the remaining time down to 0 from less than MaxDt
C26_Witness ==
    /\ game.puzzle.time_left = 0
    /\ game.puzzle.guess_result = Some("Timeout")
    /\ game.puzzle.time_total % MaxDt # 0

\* the base time of a width in seconds
BaseSeconds(bits) ==
    CASE bits = "Four" -> 8
      [] bits = "Eight" -> 12
      [] bits = "Twelve" -> 16
      [] bits = "Sixteen" -> 20

\* max(base_time - 0.5 * streak, 5.0) seconds, in half-seconds
TimeLimit(bits, streak) == Max(2 * BaseSeconds(bits) - streak, 2 * 5)

\* C27: a puzzle's time_total is max(base_time - 0.5 * streak, 5.0) seconds
\* with base_time 8, 12, 16, 20 seconds for 4, 8, 12, 16 bits: it is never
\* below 5 seconds, a puzzle built for one more streak gets no more time,
\* and a new puzzle has time_left equal to time_total.
C27_TimeTotal ==
    is_some(game.puzzle) =>
        LET puzzle == game.puzzle[1]
            next == NewPuzzle(game.bits, game.streak + 1, game.seed)
        IN  /\ puzzle.time_total = TimeLimit(game.bits, game.streak)
            /\ puzzle.time_total >= 2 * 5
            /\ puzzle.time_left = puzzle.time_total
            /\ next.time_total <= puzzle.time_total

\* a 16-bit puzzle built for a streak that brings the limit to its floor
C27_Witness ==
    /\ is_some(game.puzzle)
    /\ game.bits = "Sixteen"
    /\ game.streak > 2 * BaseSeconds(game.bits) - 2 * 5
    /\ game.puzzle[1].time_total = 2 * 5

\* Enter has started a new round of the session g with the new puzzle built
\* from g's streak
Advanced(g, after) ==
    /\ after.puzzle.guess_result = None
    /\ after.puzzle.time_total = TimeLimit(g.bits, g.streak)
    /\ after.puzzle.time_left = after.puzzle.time_total
    /\ after.puzzle.bits = g.bits
    /\ ~after.puzzle.show_hint
    /\ after.puzzle.selected_suggestion = Some(after.puzzle.suggestions[1])
    /\ ~after.puzzle_resolved
    /\ after.score = g.score
    /\ after.streak = g.streak
    /\ after.lives = g.lives
    /\ after.rounds = g.rounds
    /\ after.game_over = g.game_over
    /\ after.exit_intended = g.exit_intended

\* C28: Enter starts a new round exactly when the round has an outcome and
\* the session is not over: the puzzle is replaced by one built from the
\* current streak, with no outcome, time_left = time_total, the hint off
\* and the first suggestion selected, round_finalized is cleared, and score,
\* streak, lives and rounds are left alone.  Without an outcome Enter
\* submits the guess, and on the game-over screen it resets the session.
C28_AdvanceRound ==
    \A seed \in Seeds :
        LET after == handle_game_input(game, "Enter", seed)
        IN  /\ WouldAdvance(game) => game.puzzle_resolved /\ Advanced(game, after)
            /\ ~game.game_over /\ game.puzzle.guess_result = None =>
                   /\ is_some(after.puzzle.guess_result)
                   /\ after.puzzle_resolved
                   /\ after.rounds = game.rounds + 1
            /\ game.game_over => after = reset_game_state(game, seed) /\ after.lives # game.lives

\* a round of a session with points, a streak and rounds played has an
\* outcome, so that Enter starts the next round
C28_Witness ==
    /\ WouldAdvance(game)
    /\ game.streak > 0
    /\ game.score > 0
    /\ game.puzzle.show_hint
    /\ game.puzzle.selected_suggestion # Some(game.puzzle.suggestions[1])

\* the session after k presses of key
RECURSIVE Presses(_, _, _)
Presses(g, key, k) == IF k = 0 THEN g ELSE Presses(handle_game_input(g, key, 0), key, k - 1)

\* the place of the selected suggestion in the list, from 1
SelectedIndex(p) == position(p.suggestions, p.selected_suggestion[1])[1]

\* C29: while the round has no outcome the selection moves in a cycle:
\* Right from the last suggestion selects the first, Left from the first
\* selects the last, Right then Left restores the selection, and as many
\* Rights as there are suggestions return to the starting selection.
C29_SelectionCycles ==
    ~game.game_over /\ game.puzzle.guess_result = None =>
        LET p == game.puzzle
            n == Len(p.suggestions)
            right == handle_game_input(game, "Right", 0)
            left == handle_game_input(game, "Left", 0)
        IN  /\ is_some(p.selected_suggestion)
            /\ is_some(position(p.suggestions, p.selected_suggestion[1]))
            /\ right = [game EXCEPT !.puzzle.selected_suggestion =
                            Some(p.suggestions[(SelectedIndex(p) % n) + 1])]
            /\ left = [game EXCEPT !.puzzle.selected_suggestion =
                           Some(p.suggestions[((SelectedIndex(p) + n - 2) % n) + 1])]
            /\ handle_game_input(right, "Left", 0) = game
            /\ handle_game_input(left, "Right", 0) = game
            /\ Presses(game, "Right", n) = game
            /\ Presses(game, "Left", n) = game

\* the last suggestion is selected in a round with no outcome
C29_Witness ==
    /\ ~game.game_over
    /\ game.puzzle.guess_result = None
    /\ game.puzzle.selected_suggestion =
           Some(game.puzzle.suggestions[Len(game.puzzle.suggestions)])

\* the keys handle_game_input tells apart, "Other" for every other key
GameKeys == {"Right", "Left", "Enter", "h", "H", "s", "S", "Esc", "Other"}

\* two sessions that differ in nothing but the visibility of the hint
SameButHint(a, b) ==
    [a EXCEPT !.puzzle.show_hint = FALSE] = [b EXCEPT !.puzzle.show_hint = FALSE]

\* C31: the hint is score-neutral.  A hint key changes nothing but
\* show_hint, and a session and its twin with the hint the other way
\* round, given the same tick or the same other key (and the same random
\* stream for the puzzle Enter may build), still differ in nothing but
\* show_hint: score, streak, lives, rounds, outcome, selection and
\* time_left of two runs fed the same ticks and keys but different hint
\* toggles stay equal.
C31_HintNeutral ==
    LET twin == [game EXCEPT !.puzzle.show_hint = ~@]
    IN  /\ \A key \in {"h", "H"} : SameButHint(handle_game_input(game, key, 0), game)
        /\ \A dt \in DtSet : SameButHint(Run(game, dt), Run(twin, dt))
        /\ \A key \in GameKeys \ {"h", "H"} :
               SameButHint(handle_game_input(game, key, 0), handle_game_input(twin, key, 0))

\* a round answered correctly, and scored, with the hint showing
C31_Witness ==
    /\ game.puzzle.show_hint
    /\ game.puzzle.guess_result = Some("Correct")
    /\ game.score > 0

\* the puzzle of session g is of the session's bit width
PuzzleOfWidth(g) ==
    /\ g.puzzle.bits = g.bits
    /\ Len(g.puzzle.suggestions) = suggestion_count(g.bits)
    /\ \A i \in 1..Len(g.puzzle.suggestions) :
           g.puzzle.suggestions[i] \in 0..upper_bound(g.bits)

\* C32: the bit width of a session is fixed: no tick and no key, the Enter
\* of advance_round and of the reset included, changes bits, and the
\* puzzle of the session always has the session's bit width, with
\* suggestions in the range of that width and as many as the width asks.
C32_BitsFixed ==
    /\ PuzzleOfWidth(game)
    /\ [][game'.bits = game.bits /\ PuzzleOfWidth(game')]_vars

\* a 16-bit session in a later round, on a puzzle made by advance_round
C32_Witness ==
    /\ game.bits = "Sixteen"
    /\ game.rounds > 0
    /\ game.puzzle.guess_result = None

\* C33: the generation loop terminates for every bit width: the range of
\* every width holds at least suggestion_count values, so that a value not
\* yet used exists as long as the loop runs, and under fair draws the loop
\* is left with suggestion_count distinct values.
C33_GenerationTerminates ==
    <>(/\ game.pc = "done"
       /\ Len(game.suggestions) = suggestion_count(game.bits)
       /\ \A i, j \in 1..Len(game.suggestions) :
              game.suggestions[i] = game.suggestions[j] => i = j)

\* the loop of a 16-bit puzzle has been left with six suggestions
C33_Witness ==
    /\ game.pc = "done"
    /\ game.bits = "Sixteen"
    /\ Len(game.suggestions) = 6

\* C34: a suggestion is always selected and is one of the suggestions of
\* the current puzzle, so that Enter in a round with no outcome always
\* resolves the round, as Correct or Incorrect.
C34_SelectionValid ==
    /\ is_some(game.puzzle.selected_suggestion)
    /\ contains(game.puzzle.suggestions, game.puzzle.selected_suggestion[1])
    /\ ~game.game_over /\ game.puzzle.guess_result = None =>
           LET after == handle_game_input(game, "Enter", 0)
           IN  /\ is_some(after.puzzle.guess_result)
               /\ after.puzzle.guess_result[1] \in {"Correct", "Incorrect"}
               /\ after.puzzle_resolved
               /\ after.rounds = game.rounds + 1

\* Enter has resolved a round on a suggestion the player moved to, in a
\* round that is not the first
C34_Witness ==
    /\ is_some(game.puzzle.guess_result)
    /\ game.puzzle.guess_result[1] \in {"Correct", "Incorrect"}
    /\ game.puzzle.selected_suggestion # Some(game.puzzle.suggestions[1])
    /\ game.rounds > 1

\* the tick of the next iteration of host h ends the round of the attached
\* game by Timeout, and the host goes on to the input with the game attached
TimesOutNow(h) ==
    /\ AttachedGame(h) # None
    /\ ~AttachedGame(h)[1].exit_intended
    /\ ~AttachedGame(h)[1].game_over
    /\ AttachedGame(h)[1].puzzle.guess_result = None
    /\ Run(AttachedGame(h)[1], h.elapsed).puzzle.guess_result = Some("Timeout")

\* the attached game after an iteration of host h that reads Enter
AfterEnter(h, seed) == AttachedGame(Iterate(h, 0, "Enter", seed))

\* in every host a round with no outcome has time left
TimeLeftWhileOpen(h) ==
    AttachedGame(h) # None /\ AttachedGame(h)[1].puzzle.guess_result = None =>
        AttachedGame(h)[1].puzzle.time_left > 0

\* C35 as stated: a round with no outcome has time left, and an Enter read
\* in the iteration whose tick brings time_left to 0 is advance_round, the
\* round staying scored as Timeout.
C35_EnterAfterTimeoutAdvances ==
    /\ TimeLeftWhileOpen(host)
    /\ TimesOutNow(host) /\ EventAllowed(host, host.elapsed, "Enter") =>
           \A seed \in HostSeeds :
               AfterEnter(host, seed) =
                   Some(AdvanceRound(Run(AttachedGame(host)[1], host.elapsed), seed))

\* C35: a round with no outcome has time left, and an Enter read in the
\* iteration whose tick brings time_left to 0 is never a guess: the round
\* is scored as Timeout, for one life, and Enter is advance_round, or the
\* reset of the game-over screen when the timeout took the last life.
C35_NoGuessAfterTimeout ==
    /\ TimeLeftWhileOpen(host)
    /\ TimesOutNow(host) /\ EventAllowed(host, host.elapsed, "Enter") =>
           LET before == AttachedGame(host)[1]
               ticked == Run(before, host.elapsed)
           IN  /\ ticked.puzzle.time_left = 0
               /\ ticked.rounds = before.rounds + 1
               /\ ticked.lives = before.lives - 1
               /\ ticked.score = before.score
               /\ ticked.game_over <=> before.lives = 1
               /\ \A seed \in HostSeeds :
                      AfterEnter(host, seed) =
                          IF ticked.game_over
                          THEN Some(reset_game_state(ticked, seed))
                          ELSE Some(AdvanceRound(ticked, seed))

\* the tick of the next iteration times the round out and takes the last
\* life
C35_Witness ==
    /\ TimesOutNow(host)
    /\ AttachedGame(host)[1].lives = 1
    /\ EventAllowed(host, host.elapsed, "Enter")

\* Esc in session g sets exit_intended and changes nothing else
EscOnlyExits(g) == handle_game_input(g, "Esc", 0) = [g EXCEPT !.exit_intended = TRUE]

\* C36: Esc comes first in every state of a session, playing, round
\* resolved or game over: it sets exit_intended and changes nothing else,
\* and no tick and no key sets exit_intended back to false.
C36_EscFirst ==
    /\ EscOnlyExits(game)
    /\ [][EscOnlyExits(game') /\ (game.exit_intended => game'.exit_intended)]_vars

\* Esc has been pressed, and a round answered correctly in a session that
\* has lost a life
C36_Witness ==
    /\ game.exit_intended
    /\ game.puzzle.guess_result = Some("Correct")
    /\ game.lives < 3
    /\ game.score > 0

\* C37: whenever the session is over, streak is 0, lives is 0, the round is
\* finalized and the outcome of the current puzzle is Incorrect or
\* Timeout: a session never ends on a Correct outcome.
C37_GameOverState ==
    game.game_over =>
        /\ game.streak = 0
        /\ game.lives = 0
        /\ game.puzzle_resolved
        /\ is_some(game.puzzle.guess_result)
        /\ game.puzzle.guess_result[1] \in {"Incorrect", "Timeout"}

\* a session that had gained a life is over
C37_Witness ==
    /\ game.game_over
    /\ game.score > 0
    /\ \E i \in 1..(Len(game.history) - 4) :
           \A j \in i..(i + 4) : game.history[j] = "Correct"

\* rounds counts the rounds finalized since the session was created or
\* reset, and the streak is not longer than that
RoundsCounted(g) == g.rounds = Len(g.history) /\ g.streak <= g.rounds

\* C38: between resets score and rounds never decrease, score changes only
\* when a Correct outcome is finalized, rounds is the number of rounds
\* finalized since the session was created or last reset, and streak is at
\* most rounds.  The reset is the one step that ends a game over.
C38_ScoreRoundsMonotone ==
    /\ RoundsCounted(game)
    /\ [][/\ RoundsCounted(game')
          /\ ~(game.game_over /\ ~game'.game_over) =>
                 /\ game'.score >= game.score
                 /\ game'.rounds >= game.rounds
                 /\ game'.score # game.score => Finalizing({"Correct"})
                 /\ game'.rounds # game.rounds =>
                        /\ game'.rounds = game.rounds + 1
                        /\ Finalizing({"Correct", "Incorrect", "Timeout"})
                 /\ Finalizing({"Correct", "Incorrect", "Timeout"}) =>
                        game'.rounds = game.rounds + 1]_vars

\* a correct answer has been scored after a wrong one
C38_Witness ==
    /\ game.score > 0
    /\ game.streak > 0
    /\ game.streak < game.rounds
    /\ game.puzzle.guess_result = Some("Correct")

\* the state of run_app after an iteration of host h that reads event
AfterEvent(h, event) == Iterate(h, 0, event, 0).app_state

\* C39: in run_app Esc and Ctrl+C read while playing become the game's Esc:
\* the iteration sets exit_intended and keeps playing, and the next
\* iteration returns to a new start menu whatever it would have read, and
\* does not exit.  The loop exits only through Esc or Ctrl+C on the start
\* menu.  Playing is entered only by Enter on the start menu, with a new
\* session: score 0, streak 0, rounds 0, lives 3, a puzzle with no outcome.
C39_BinbreakMenu ==
    host.kind = "run_app" /\ RunAppLoopCondition(host.app_state) =>
        \A event \in HostEvents :
            LET state == host.app_state
                after == AfterEvent(host, event)
                leaving == state.tag = "Playing" /\ Continues(state, host.elapsed)
            IN  /\ after.tag = "Exit" <=> state.tag = "Start" /\ event \in {"Esc", "CtrlC"}
                /\ state.tag = "Playing" /\ ~leaving /\ event \in {"Esc", "CtrlC"} =>
                       /\ after = [tag |-> "Playing",
                                   game |-> [Run(state.game, host.elapsed)
                                                 EXCEPT !.exit_intended = TRUE]]
                       /\ \A next \in HostEvents :
                              AfterEvent([host EXCEPT !.app_state = after], next) =
                                  StartMenuState_new
                /\ leaving => after = StartMenuState_new
                /\ state.tag = "Start" =>
                       /\ after.tag = "Playing" <=> event = "Enter"
                       /\ after.tag = "Playing" =>
                              /\ \E bits \in AllBits : after.game = NewGame(bits, 0)
                              /\ after.game.score = 0
                              /\ after.game.streak = 0
                              /\ after.game.rounds = 0
                              /\ after.game.lives = 3
                              /\ ~after.game.game_over
                              /\ ~after.game.exit_intended
                              /\ after.game.puzzle.guess_result = None

\* in run_app Esc or Ctrl+C has been read in a session that has points and
\* has lost a life
C39_Witness ==
    /\ host.kind = "run_app"
    /\ host.app_state.tag = "Playing"
    /\ host.app_state.game.exit_intended
    /\ host.app_state.game.score > 0
    /\ host.app_state.game.lives < 3

\* a wait far longer than any round
LongWait == 100 * MaxDt

\* C40: in performance mode the time the loop spends blocked on the next
\* key is charged to the puzzle by the tick of the following iteration
\* only, after the key has been handled.  Enter or skip read after a wait
\* of any length meets the time_left of before the wait: Enter resolves
\* the round as Correct or Incorrect and skip as a skip, with time_left
\* as it was, and the following tick changes nothing; after a key that
\* does not resolve the round the following tick takes the wait off.
C40_WaitChargedLater ==
    Performance(host) /\ AttachedGame(host) # None =>
        LET ticked == Run(AttachedGame(host)[1], host.elapsed)
        IN  ~ticked.game_over /\ ticked.puzzle.guess_result = None =>
                \A wait \in DtSet \cup {LongWait} :
                    /\ \A event \in {"Enter", "s"} :
                           EventAllowed(host, host.elapsed, event) =>
                               LET after == Iterate(host, wait, event, 0)
                                   resolved == AttachedGame(after)[1]
                               IN  /\ resolved = handle_game_input(ticked, event, 0)
                                   /\ resolved.puzzle.time_left = ticked.puzzle.time_left
                                   /\ resolved.puzzle.time_left > 0
                                   /\ resolved.puzzle.guess_result =
                                          IF event = "s" THEN Some("Timeout")
                                          ELSE IF is_correct_guess(ticked.puzzle,
                                                       ticked.puzzle.selected_suggestion[1])
                                          THEN Some("Correct")
                                          ELSE Some("Incorrect")
                                   /\ resolved.rounds = ticked.rounds + 1
                                   /\ after.elapsed = wait
                                   /\ AttachedGame(Iterate(after, 0, "Resize", 0)) =
                                          Some(resolved)
                    /\ LET after == Iterate(host, wait, "Right", 0)
                           moved == AttachedGame(after)[1]
                       IN  /\ moved.puzzle.time_left = ticked.puzzle.time_left
                           /\ AttachedGame(Iterate(after, 0, "Resize", 0))[1].puzzle.time_left =
                                  Max(ticked.puzzle.time_left - wait, 0)

\* in performance mode the round of the attached game is open after the
\* tick of the coming iteration, with no more time left than a wait of
\* MaxDt would use up
C40_Witness ==
    /\ Performance(host)
    /\ host.event_read
    /\ AttachedGame(host) # None
    /\ ~AttachedGame(host)[1].game_over
    /\ Run(AttachedGame(host)[1], host.elapsed).puzzle.guess_result = None
    /\ Run(AttachedGame(host)[1], host.elapsed).puzzle.time_left <= MaxDt

====
